---------------------------- MODULE Spec2Model ----------------------------
(***************************************************************************)
(* Model of the medical referral text pipeline of MedicalDataProcessor.py  *)
(* and DataCleaner.py.                                                     *)
(*                                                                         *)
(* Python strings are sequences of one-character strings, so that          *)
(* splitting, stripping, case folding and regular-expression matching are  *)
(* computed character by character.  A cell of a DataFrame (and every      *)
(* argument or result of a method) is a Python value: a str, an int or the *)
(* missing value (None / NaN).                                             *)
(***************************************************************************)
EXTENDS Naturals, Integers, Sequences, FiniteSets, TLC

VARIABLES
  df,      \* the DataFrame the caller holds: [cols, rows]
  cols3,   \* the caller's column names <<exam, organ, contrast>>
  call,    \* the last method call: [op, arg, column]
  ret,     \* what the last call returned or raised
  prev,    \* the DataFrame as it was before the last call
  prevcall \* the call before the last one

vars == <<df, cols3, call, ret, prev, prevcall>>

----------------------------------------------------------------------------
(* Bounds of the input spaces.                                             *)

\* texts are concatenations of at most MaxAtoms atoms
MaxAtoms == 3

\* DataFrames have between 1 and MaxRows records
MaxRows == 2

----------------------------------------------------------------------------
(* Python values.                                                          *)

PyStr(s) == [t |-> "str", s |-> s, n |-> 0]
PyInt(n) == [t |-> "int", s |-> <<>>, n |-> n]
None == [t |-> "none", s |-> <<>>, n |-> 0]

\* isinstance(v, str)
isinstance_str(v) == v.t = "str"

\* pd.isna(v) for a scalar: None and NaN are the missing value
isna(v) == v.t = "none"

----------------------------------------------------------------------------
(* Characters.                                                             *)

UpperCase ==
  <<"A","B","C","D","E","F","G","H","I","J","K","L","M",
    "N","O","P","Q","R","S","T","U","V","W","X","Y","Z">>

LowerCase ==
  <<"a","b","c","d","e","f","g","h","i","j","k","l","m",
    "n","o","p","q","r","s","t","u","v","w","x","y","z">>

Digits == <<"0","1","2","3","4","5","6","7","8","9">>

Range(f) == {f[i] : i \in DOMAIN f}

\* the characters \s matches (and str.strip() removes)
Whitespace == {" ", "\n", "\t"}

\* the characters \w matches
WordChars == Range(UpperCase) \cup Range(LowerCase) \cup Range(Digits) \cup {"_"}

\* str.lower() on one character
lower_char(c) ==
  IF c \in Range(UpperCase)
    THEN LowerCase[CHOOSE i \in DOMAIN UpperCase : UpperCase[i] = c]
    ELSE c

----------------------------------------------------------------------------
(* Python str methods and re primitives, on character sequences.           *)

\* a function over 1..n as a sequence value
AsSeq(f, n) == IF n = 0 THEN <<>> ELSE [i \in 1..n |-> f[i]]

\* s.lower()
str_lower(s) == AsSeq([i \in 1..Len(s) |-> lower_char(s[i])], Len(s))

\* s[i:], 1-based i
From(s, i) == SubSeq(s, i, Len(s))

RECURSIVE str_lstrip(_)
str_lstrip(s) ==
  IF s # <<>> /\ Head(s) \in Whitespace THEN str_lstrip(Tail(s)) ELSE s

RECURSIVE str_rstrip(_, _)
\* s.rstrip(chars): every trailing character in chars is removed
str_rstrip(s, chars) ==
  IF s # <<>> /\ s[Len(s)] \in chars
    THEN str_rstrip(SubSeq(s, 1, Len(s) - 1), chars)
    ELSE s

\* s.strip()
str_strip(s) == str_rstrip(str_lstrip(s), Whitespace)

\* s.replace(old, new) for a one-character old and a new of at most one
\* character: every occurrence is removed or replaced in place
str_replace(s, old, new) ==
  IF new = <<>> THEN SelectSeq(s, LAMBDA c : c # old)
  ELSE AsSeq([i \in 1..Len(s) |-> IF s[i] = old THEN new[1] ELSE s[i]], Len(s))

\* the tokens of s, splitting at every sep: with the separators at
\* positions p1 < ... < pk, the k + 1 tokens s[:p1], s[p1+1:p2], ...,
\* s[pk+1:]
SplitAt(s, sep) ==
  LET at == {i \in 1..Len(s) : s[i] = sep}
      ends == at \cup {0, Len(s) + 1}
      nth(j) == CHOOSE e \in ends : Cardinality({d \in ends : d < e}) = j
  IN AsSeq([j \in 1..(Cardinality(at) + 1) |->
              SubSeq(s, nth(j - 1) + 1, nth(j) - 1)], Cardinality(at) + 1)

\* a split that drops the empty tokens, as s.split() with no separator does
str_split_drop_empty(s, sep) ==
  SelectSeq(SplitAt(s, sep), LAMBDA tok : tok # <<>>)

\* s.split(sep) with an explicit one-character separator: empty tokens are
\* kept, and the result always has at least one token
str_split(s, sep) == SplitAt(s, sep)

RECURSIVE str_join(_, _)
\* sep.join(parts)
str_join(sep, parts) ==
  IF parts = <<>> THEN <<>>
  ELSE IF Len(parts) = 1 THEN parts[1]
  ELSE parts[1] \o sep \o str_join(sep, Tail(parts))

\* s[i : i+Len(p)] == p, 1-based i
HasAt(s, i, p) ==
  /\ i >= 1
  /\ i + Len(p) - 1 <= Len(s)
  /\ SubSeq(s, i, i + Len(p) - 1) = p

\* the same, ignoring case (re.IGNORECASE on a literal)
HasAtIgnoreCase(s, i, p) ==
  /\ i >= 1
  /\ i + Len(p) - 1 <= Len(s)
  /\ \A j \in 1..Len(p) : lower_char(s[i + j - 1]) = lower_char(p[j])

----------------------------------------------------------------------------
(* clean_recommendation                                                    *)

L_Recommendation == <<"R","e","c","o","m","m","e","n","d","a","t","i","o","n">>
L_Exam == <<"E","x","a","m">>

\* the characters [^.\n] excludes
DotNewline == {".", "\n"}

\* the number of consecutive characters of s from position i that are in
\* chars (member = TRUE) or outside chars (member = FALSE): the run ends at
\* the first character of the other kind, or at the end of s
RunLen(s, i, chars, member) ==
  LET stop == {j \in i..Len(s) : (s[j] \in chars) # member}
  IN IF i > Len(s) THEN 0
     ELSE IF stop = {} THEN Len(s) - i + 1
     ELSE (CHOOSE j \in stop : \A k \in stop : j <= k) - i

\* (Recommendation|Exam): at position i: the position after the colon, or 0
LabelEnd(s, i) ==
  IF HasAtIgnoreCase(s, i, L_Recommendation \o <<":">>)
    THEN i + Len(L_Recommendation) + 1
  ELSE IF HasAtIgnoreCase(s, i, L_Exam \o <<":">>)
    THEN i + Len(L_Exam) + 1
  ELSE 0

\* \s*([^.\n]+) from position p: \s* is greedy and gives characters back
\* until [^.\n]+ can match at least one; the start of group 2, or 0
Group2Start(s, p) ==
  LET w == RunLen(s, p, Whitespace, TRUE)
      ok == {j \in 0..w : p + j <= Len(s) /\ s[p + j] \notin DotNewline}
  IN IF ok = {} THEN 0
     ELSE p + (CHOOSE j \in ok : \A k \in ok : k <= j)

NoMatch == [matched |-> FALSE, start |-> 0, group1 |-> <<>>, group2 |-> <<>>]

\* the pattern tried at start position i: the start of group 2, or 0 when
\* the pattern does not match there
MatchStart(s, i) ==
  LET p == LabelEnd(s, i)
  IN IF p = 0 THEN 0 ELSE Group2Start(s, p)

\* re.search(r"(Recommendation|Exam):\s*([^.\n]+)", s, re.IGNORECASE),
\* scanning start positions from i: the leftmost match
re_search_label(s, i) ==
  LET starts == {j \in i..Len(s) : MatchStart(s, j) # 0}
  IN IF starts = {} THEN NoMatch
     ELSE LET m == CHOOSE j \in starts : \A k \in starts : j <= k
              g == MatchStart(s, m)
          IN [matched |-> TRUE, start |-> m,
              group1 |-> SubSeq(s, m, LabelEnd(s, m) - 2),
              group2 |-> SubSeq(s, g, g + RunLen(s, g, DotNewline, FALSE) - 1)]

TypeError == [status |-> "raised", exc |-> "TypeError", value |-> None]
KeyError == [status |-> "raised", exc |-> "KeyError", value |-> None]
ValueError == [status |-> "raised", exc |-> "ValueError", value |-> None]
Returned(v) == [status |-> "ok", exc |-> "", value |-> v]

\* the fallback branch with strip and rstrip in the other order
clean_fallback_rstrip_first(s) ==
  str_strip(str_rstrip(str_replace(s, "\n", <<" ">>), {"."}))

\* text.replace("\n", " ").strip().rstrip('.')
clean_fallback(s) ==
  str_rstrip(str_strip(str_replace(s, "\n", <<" ">>)), {"."})

\* clean_recommendation returning the label group instead of the text group
clean_recommendation_group1(text) ==
  IF ~isinstance_str(text) THEN TypeError
  ELSE LET match == re_search_label(text.s, 1)
       IN IF match.matched
            THEN Returned(PyStr(str_strip(match.group1)))
            ELSE Returned(PyStr(clean_fallback(text.s)))

\* clean_recommendation(text): re.search raises TypeError on a non-string
clean_recommendation(text) ==
  IF ~isinstance_str(text) THEN TypeError
  ELSE LET match == re_search_label(text.s, 1)
       IN IF match.matched
            THEN Returned(PyStr(str_strip(match.group2)))
            ELSE Returned(PyStr(clean_fallback(text.s)))

----------------------------------------------------------------------------
(* format_referral                                                         *)

\* self.keywords
keywords ==
  { <<"w">>, <<"w","o">>, <<"w","i","t","h">>, <<"w","i","t","h","o","u","t">>, <<"w","o","/","w">> }

\* self.ct_types
ct_types ==
  { <<"a","n","g","i","o","g","r","a","p","h","y">>, <<"a","r","t","h","r","o","g","r","a","p","h","y">>, <<"e","n","t","e","r","o","g","r","a","p","h","y">>, <<"f","i","s","t","u","l","o","g","r","a","m">>,
    <<"u","r","o","g","r","a","p","h","y">>, <<"v","e","n","o","g","r","a","p","h","y">>, <<"q","u","a","n","t","i","t","a","t","i","v","e">>, <<"s","c","a","n">> }

\* [s.strip().replace(',', '') for s in elements]
clean_elements(elements) ==
  AsSeq([i \in 1..Len(elements) |->
           str_replace(str_strip(elements[i]), ",", <<>>)], Len(elements))

RECURSIVE first_index(_, _, _)
\* the for/enumerate/break loop: the first index from i (1-based) whose
\* element is in vocabulary, or 0 when the loop ends without a break
first_index(elements, vocabulary, i) ==
  IF i > Len(elements) THEN 0
  ELSE IF elements[i] \in vocabulary THEN i
  ELSE first_index(elements, vocabulary, i + 1)

AllNone == <<None, None, None>>

\* the exam taken as elements[:ct_index], without the CT-type token
format_referral_exclusive(row) ==
  IF ~isinstance_str(row) THEN Returned(AllNone)
  ELSE
    LET elements == clean_elements(str_split(row.s, " "))
        found == first_index(elements, ct_types, 1)
    IN IF found = 0 /\ elements = <<>> THEN Returned(AllNone)
       ELSE
         LET exam == IF found # 0
                       THEN str_join(<<" ">>, SubSeq(elements, 1, found - 1))
                       ELSE elements[1]
             ct_index == IF found # 0 THEN found ELSE 1
             other_elements == From(elements, ct_index + 1)
             keyword_index == first_index(other_elements, keywords, 1)
         IN IF keyword_index # 0
              THEN Returned(<<PyStr(exam),
                              PyStr(str_join(<<" ">>, SubSeq(other_elements, 1, keyword_index - 1))),
                              PyStr(str_join(<<" ">>, From(other_elements, keyword_index)))>>)
              ELSE Returned(<<PyStr(exam), PyStr(str_join(<<" ">>, other_elements)), None>>)

\* format_referral(row).  Indices are 1-based here: ct_index is the Python
\* ct_index + 1, so elements[:ct_index + 1] is SubSeq(elements, 1, ct_index)
\* and elements[ct_index + 1:] is From(elements, ct_index + 1).  The only
\* statement of the try block that can raise is elements[0] on an empty
\* list (IndexError), which the except clause turns into [None, None, None].
format_referral(row) ==
  IF ~isinstance_str(row) THEN Returned(AllNone)
  ELSE
    LET elements == clean_elements(str_split(row.s, " "))
        found == first_index(elements, ct_types, 1)
    IN IF found = 0 /\ elements = <<>> THEN Returned(AllNone)
       ELSE
         LET exam == IF found # 0
                       THEN str_join(<<" ">>, SubSeq(elements, 1, found))
                       ELSE elements[1]
             ct_index == IF found # 0 THEN found ELSE 1
             other_elements == From(elements, ct_index + 1)
             keyword_index == first_index(other_elements, keywords, 1)
         IN IF keyword_index # 0
              THEN Returned(<<PyStr(exam),
                              PyStr(str_join(<<" ">>, SubSeq(other_elements, 1, keyword_index - 1))),
                              PyStr(str_join(<<" ">>, From(other_elements, keyword_index)))>>)
              ELSE Returned(<<PyStr(exam), PyStr(str_join(<<" ">>, other_elements)), None>>)

----------------------------------------------------------------------------
(* The taxonomy encoders.                                                  *)

\* self.exam_categories: category name and trigger terms, in dict order
exam_categories ==
  <<
    [ name |-> "CT Scans", terms |-> <<
        <<"c","t">>,  \* ct
        <<"c","t"," ","a","n","g","i","o","g","r","a","p","h","y">>,  \* ct angiography
        <<"c","t"," ","e","n","t","e","r","o","g","r","a","p","h","y">>,  \* ct enterography
        <<"c","t"," ","h","i","g","h"," ","r","e","s","o","l","u","t","i","o","n">>,  \* ct high resolution
        <<"c","t"," ","c","o","l","o","n","o","g","r","a","p","h","y">>,  \* ct colonography
        <<"c","t"," ","v","e","n","o","g","r","a","p","h","y">>,  \* ct venography
        <<"c","t"," ","m","a","x","i","l","l","o","f","a","c","i","a","l">>,  \* ct maxillofacial
        <<"c","t"," ","p","a","n","c","r","e","a","t","i","t","i","s"," ","p","r","o","t","o","c","o","l">>,  \* ct pancreatitis protocol
        <<"c","t"," ","r","e","t","r","o","p","e","r","i","t","o","n","e","a","l">>,  \* ct retroperitoneal
        <<"c","t"," ","a","n","g","i","o","g","r","a","p","h","y"," ","r","e","t","r","o","p","e","r","i","t","o","n","e","u","m">>,  \* ct angiography retroperitoneum
        <<"c","t"," ","r","e","t","r","o","p","e","r","i","t","o","n","e","a","l"," ","s","p","a","c","e">>,  \* ct retroperitoneal space
        <<"c","t"," ","r","e","t","r","o","p","e","r","i","t","i","n","e","a","l"," ","s","p","a","c","e">>,  \* ct retroperitineal space
        <<"c","t"," ","p","a","n","c","r","e","a","s"," ","p","r","o","t","o","c","o">>,  \* ct pancreas protoco
        <<"c","t"," ","e","n","t","e","r","o","c","l","y","s","i","s">>,  \* ct enteroclysis
        <<"c","t"," ","a","n","g","i","o","g","r","a","p","h","y"," ","p","e","r","f","u","s","i","o","n">>,  \* ct angiography perfusion
        <<"c","t"," ","a","n","g","i","o","g","r","a","p","h","y"," ","a","o","r","t","o","g","r","a","p","h","y">>,  \* ct angiography aortography
        <<"c","t"," ","a","r","t","e","r","i","o","g","r","a","p","h","y">>,  \* ct arteriography
        <<"c","t"," ","a","r","t","r","o","g","r","a","p","h","y">>,  \* ct artrography
        <<"c","o","m","p","u","t","e","d"," ","t","o","m","o","g","r","a","p","h","y"," ","c","t"," ","s","c","a","n">>,  \* computed tomography ct scan
        <<"h","i","g","h"," ","r","e","s","o","l","u","t","i","o","n"," ","c","t"," ","s","c","a","n">>,  \* high resolution ct scan
        <<"c","t",","," ","x","-","r","a","y">>,  \* ct, x-ray
        <<"c","t",","," ","c","t"," ","u","r","o","g","r","a","p","h","y">>,  \* ct, ct urography
        <<"c","t",","," ","x","r","a","y">>  \* ct, xray
      >> ],
    [ name |-> "MRI", terms |-> <<
        <<"m","r","i">>,  \* mri
        <<"m","r","i"," ","e","n","t","e","r","o","g","r","a","p","h","y">>,  \* mri enterography
        <<"m","r","i"," ","a","n","g","i","o","g","r","a","p","h","y">>,  \* mri angiography
        <<"m","r","i"," ","b","r","a","i","n"," ","a","n","d"," ","m","r"," ","a","n","g","i","o","g","r","a","p","h","y">>,  \* mri brain and mr angiography
        <<"c","a","r","d","i","a","c"," ","m","r","i">>,  \* cardiac mri
        <<"p","e","l","v","i","c"," ","m","r","i">>,  \* pelvic mri
        <<"m","r","c","p">>,  \* mrcp
        <<"m","r","v">>  \* mrv
      >> ],
    [ name |-> "Ultrasound and Doppler Studies", terms |-> <<
        <<"u","l","t","r","a","s","o","u","n","d">>,  \* ultrasound
        <<"d","o","p","p","l","e","r"," ","u","l","t","r","a","s","o","u","n","d">>,  \* doppler ultrasound
        <<"c","a","r","o","t","i","d"," ","d","u","p","l","e","x"," ","u","l","t","r","a","s","o","u","n","d">>,  \* carotid duplex ultrasound
        <<"p","e","l","v","i","c"," ","u","l","t","r","a","s","o","u","n","d">>,  \* pelvic ultrasound
        <<"a","r","t","e","r","i","a","l","/","v","e","n","o","u","s"," ","d","u","p","l","e","x"," ","u","l","t","r","a","s","o","u","n","d">>,  \* arterial/venous duplex ultrasound
        <<"d","u","p","l","e","x"," ","u","l","t","r","a","s","o","u","n","d">>  \* duplex ultrasound
      >> ],
    [ name |-> "Radiography and X-Ray", terms |-> <<
        <<"x","r","a","y">>,  \* xray
        <<"m","a","m","m","o","g","r","a","m">>,  \* mammogram
        <<"m","a","m","m","o","g","r","a","p","h","y">>,  \* mammography
        <<"r","a","d","i","o","g","r","a","p","h","y">>,  \* radiography
        <<"d","e","n","t","a","l"," ","c","t"," ","s","c","a","n">>,  \* dental ct scan
        <<"b","a","r","i","u","m"," ","s","w","a","l","l","o","w"," ","s","t","u","d","y">>,  \* barium swallow study
        <<"x","-","r","a","y">>  \* x-ray
      >> ],
    [ name |-> "Nuclear Medicine", terms |-> <<
        <<"p","e","t","c","t">>,  \* petct
        <<"n","u","c","l","e","a","r"," ","b","o","n","e"," ","s","c","a","n">>,  \* nuclear bone scan
        <<"b","o","n","e"," ","s","c","a","n">>,  \* bone scan
        <<"w","h","o","l","e"," ","b","o","d","y"," ","b","o","n","e"," ","s","c","a","n">>,  \* whole body bone scan
        <<"p","e","t"," ","s","c","a","n">>,  \* pet scan
        <<"d","e","x","a"," ","s","c","a","n">>  \* dexa scan
      >> ],
    [ name |-> "Invasive and Interventional Procedures", terms |-> <<
        <<"c","e","r","v","i","c","a","l"," ","n","e","r","v","e"," ","r","o","o","t"," ","b","l","o","c","k">>,  \* cervical nerve root block
        <<"l","u","m","b","a","r"," ","n","e","r","v","e"," ","r","o","o","t"," ","b","l","o","c","k">>,  \* lumbar nerve root block
        <<"p","u","d","e","n","d","a","l"," ","n","e","r","v","e"," ","r","o","o","t"," ","b","l","o","c","k">>,  \* pudendal nerve root block
        <<"c","a","t","h","e","t","e","r">>,  \* catheter
        <<"b","i","o","p","s","y">>,  \* biopsy
        <<"c","o","l","o","n","o","s","c","o","p","y">>,  \* colonoscopy
        <<"r","e","t","r","o","g","r","a","d","e"," ","p","y","e","l","o","g","r","a","m">>,  \* retrograde pyelogram
        <<"e","s","o","p","h","a","g","o","g","r","a","p","h","y">>,  \* esophagography
        <<"c","y","s","t","o","s","c","o","p","y">>,  \* cystoscopy
        <<"c","y","s","t","o","g","r","a","p","h","y">>,  \* cystography
        <<"e","s","o","p","h","a","g","o","g","a","s","t","r","o","d","u","o","d","e","n","o","s","c","o","p","y">>,  \* esophagogastroduodenoscopy
        <<"e","p","i","d","u","r","a","l"," ","s","t","e","r","o","i","d"," ","i","n","j","e","c","t","i","o","n">>  \* epidural steroid injection
      >> ],
    [ name |-> "Cardiovascular Specific Exams", terms |-> <<
        <<"e","c","h","o","c","a","r","d","i","o","g","r","a","m">>,  \* echocardiogram
        <<"s","t","r","e","s","s"," ","t","e","s","t">>,  \* stress test
        <<"c","o","r","o","n","a","r","y"," ","a","n","g","i","o","g","r","a","p","h","y">>,  \* coronary angiography
        <<"s","t","r","e","s","s"," ","e","c","h","o","c","a","r","d","i","o","g","r","a","m">>  \* stress echocardiogram
      >> ],
    [ name |-> "Health Check-ups and Other Exams", terms |-> <<
        <<"g","e","n","e","r","a","l"," ","h","e","a","l","t","h"," ","c","h","e","c","k","-","u","p">>,  \* general health check-up
        <<"g","e","n","e","r","a","l"," ","p","h","y","s","i","c","a","l"," ","e","x","a","m">>,  \* general physical exam
        <<"c","o","m","p","l","e","t","e"," ","b","l","o","o","d"," ","c","o","u","n","t">>,  \* complete blood count
        <<"g","e","n","e","r","a","l"," ","c","h","e","c","k","-","u","p">>,  \* general check-up
        <<"p","h","y","s","i","c","a","l"," ","e","x","a","m","i","n","a","t","i","o","n">>,  \* physical examination
        <<"c","o","m","p","r","e","h","e","n","s","i","v","e"," ","m","e","t","a","b","o","l","i","c"," ","p","a","n","e","l">>,  \* comprehensive metabolic panel
        <<"c","o","m","p","l","e","t","e"," ","b","o","d","y"," ","s","c","a","n">>,  \* complete body scan
        <<"c","h","e","c","k","-","u","p">>,  \* check-up
        <<"g","e","n","e","r","a","l"," ","c","h","e","c","k"," ","u","p">>  \* general check up
      >> ]
  >>

\* self.organ_clusters: cluster name and trigger terms, in dict order
organ_clusters ==
  <<
    [ name |-> "head", terms |-> <<
        <<"h","e","a","d">>,  \* head
        <<"c","r","a","n","i","a","l">>,  \* cranial
        <<"s","k","u","l","l">>,  \* skull
        <<"b","r","a","i","n">>,  \* brain
        <<"c","e","r","e","b","r","a","l">>,  \* cerebral
        <<"f","a","c","i","a","l">>,  \* facial
        <<"s","i","n","u","s">>,  \* sinus
        <<"p","a","r","a","n","a","s","a","l"," ","s","i","n","u","s","e","s">>,  \* paranasal sinuses
        <<"t","e","m","p","o","r","a","l"," ","b","o","n","e">>,  \* temporal bone
        <<"f","a","c","e">>,  \* face
        <<"o","r","b","i","t">>,  \* orbit
        <<"t","e","m","p","o","r","o","m","a","n","d","i","b","u","l","a","r"," ","j","o","i","n","t","s">>,  \* temporomandibular joints
        <<"m","a","x","i","l","l","a">>,  \* maxilla
        <<"s","i","n","u","s","e","s">>,  \* sinuses
        <<"m","a","n","d","i","b","l","e">>,  \* mandible
        <<"p","i","t","u","i","t","a","r","y"," ","g","l","a","n","d">>,  \* pituitary gland
        <<"m","a","x","i","l","l","o","f","a","c","i","a","l"," ","a","r","e","a">>,  \* maxillofacial area
        <<"m","a","x","i","l","l","o","f","a","c","i","a","l">>,  \* maxillofacial
        <<"n","a","s","o","p","h","a","r","y","n","x">>,  \* nasopharynx
        <<"s","a","l","i","v","a","r","y"," ","g","l","a","n","d","s">>,  \* salivary glands
        <<"m","a","x","i","l","l","o","f","a","c","i","a","l"," ","r","e","g","i","o","n">>,  \* maxillofacial region
        <<"m","o","u","t","h"," ","a","r","e","a">>,  \* mouth area
        <<"t","o","n","g","u","e">>,  \* tongue
        <<"s","c","a","l","p">>,  \* scalp
        <<"p","i","t","u","i","t","a","r","y">>,  \* pituitary
        <<"e","y","e">>,  \* eye
        <<"i","n","t","r","a","c","r","a","n","i","a","l">>,  \* intracranial
        <<"e","a","r">>,  \* ear
        <<"t","e","m","p","o","r","o","m","a","n","d","i","b","u","l","a","r"," ","j","o","i","n","t">>  \* temporomandibular joint
      >> ],
    [ name |-> "neck", terms |-> <<
        <<"n","e","c","k">>,  \* neck
        <<"c","e","r","v","i","c","a","l">>,  \* cervical
        <<"t","h","r","o","a","t">>,  \* throat
        <<"n","u","c","h","a","l">>,  \* nuchal
        <<"l","a","r","y","n","x">>,  \* larynx
        <<"e","s","o","p","h","a","g","u","s">>,  \* esophagus
        <<"c","a","r","o","t","i","d"," ","a","r","t","e","r","i","e","s">>,  \* carotid arteries
        <<"c","a","r","o","t","i","d">>,  \* carotid
        <<"p","a","r","o","t","i","d"," ","g","l","a","n","d">>,  \* parotid gland
        <<"t","h","y","r","o","i","d">>  \* thyroid
      >> ],
    [ name |-> "thorax", terms |-> <<
        <<"t","h","o","r","a","x">>,  \* thorax
        <<"c","h","e","s","t">>,  \* chest
        <<"t","h","o","r","a","c","i","c">>,  \* thoracic
        <<"p","u","l","m","o","n","a","r","y">>,  \* pulmonary
        <<"h","e","a","r","t">>,  \* heart
        <<"c","a","r","d","i","a","c">>,  \* cardiac
        <<"b","r","e","a","s","t">>,  \* breast
        <<"m","e","d","i","a","s","t","i","n","u","m">>,  \* mediastinum
        <<"a","o","r","t","a">>,  \* aorta
        <<"a","o","r","t","i","c">>,  \* aortic
        <<"c","o","r","o","n","a","r","y">>,  \* coronary
        <<"c","o","r","o","n","a","r","i","e","s">>,  \* coronaries
        <<"a","o","r","t","a"," ","b","r","a","n","c","h","e","s">>,  \* aorta branches
        <<"s","t","e","r","n","o","c","l","a","v","i","c","u","l","a","r"," ","j","o","i","n","t">>,  \* sternoclavicular joint
        <<"b","r","e","a","s","t","s">>,  \* breasts
        <<"t","r","a","c","h","e","a">>,  \* trachea
        <<"l","u","n","g">>,  \* lung
        <<"l","u","n","g","s">>,  \* lungs
        <<"c","l","a","v","i","c","u","l","a">>,  \* clavicula
        <<"s","c","a","p","u","l","a"," ","b","o","n","e">>,  \* scapula bone
        <<"j","o","i","n","t"," ","s","t","e","r","n","o","c","l","a","v","i","c","u","l","a","r">>,  \* joint sternoclavicular
        <<"s","u","b","c","l","a","v","i","a","n"," ","a","r","t","e","r","y">>,  \* subclavian artery
        <<"c","o","r","o","n","a","r","y"," ","a","r","t","e","r","i","e","s">>  \* coronary arteries
      >> ],
    [ name |-> "abdomen_pelvis", terms |-> <<
        <<"a","b","d","o","m","e","n">>,  \* abdomen
        <<"a","b","d","o","m","i","n","a","l">>,  \* abdominal
        <<"s","t","o","m","a","c","h">>,  \* stomach
        <<"i","n","t","e","s","t","i","n","a","l">>,  \* intestinal
        <<"g","a","s","t","r","o","i","n","t","e","s","t","i","n","a","l">>,  \* gastrointestinal
        <<"l","i","v","e","r">>,  \* liver
        <<"p","a","n","c","r","e","a","s">>,  \* pancreas
        <<"s","p","l","e","e","n">>,  \* spleen
        <<"s","m","a","l","l"," ","b","o","w","e","l">>,  \* small bowel
        <<"c","o","l","o","n">>,  \* colon
        <<"c","o","l","o","n","o","g","r","a","p","h","y"," ","c","o","l","o","n">>,  \* colonography colon
        <<"g","a","l","l","b","l","a","d","d","e","r">>,  \* gallbladder
        <<"k","i","d","n","e","y">>,  \* kidney
        <<"k","i","d","n","e","y","s">>,  \* kidneys
        <<"u","r","i","n","a","r","y"," ","o","r","g","a","n","s">>,  \* urinary organs
        <<"b","i","l","i","a","r","y"," ","t","r","a","c","t">>,  \* biliary tract
        <<"b","i","l","i","a","r","y"," ","s","y","s","t","e","m">>,  \* biliary system
        <<"r","e","n","a","l">>,  \* renal
        <<"a","d","r","e","n","a","l">>,  \* adrenal
        <<"a","d","r","e","n","a","l"," ","g","l","a","n","d">>,  \* adrenal gland
        <<"a","d","r","e","n","a","l"," ","g","l","a","n","d","s">>,  \* adrenal glands
        <<"p","e","l","v","i","s">>,  \* pelvis
        <<"p","e","l","v","i","c">>,  \* pelvic
        <<"h","i","p">>,  \* hip
        <<"i","n","g","u","i","n","a","l">>,  \* inguinal
        <<"p","u","b","i","c">>,  \* pubic
        <<"i","l","i","a","c"," ","v","e","i","n">>,  \* iliac vein
        <<"u","r","i","n","a","r","y"," ","b","l","a","d","d","e","r">>,  \* urinary bladder
        <<"u","r","i","n","a","r","y"," ","t","r","a","c","t">>,  \* urinary tract
        <<"p","r","o","s","t","a","t","e">>,  \* prostate
        <<"u","t","e","r","u","s">>,  \* uterus
        <<"u","t","e","r","u","s"," ","a","n","d"," ","o","v","a","r","i","e","s">>  \* uterus and ovaries
      >> ],
    [ name |-> "upper_extremities", terms |-> <<
        <<"u","p","p","e","r">>,  \* upper
        <<"a","r","m">>,  \* arm
        <<"s","h","o","u","l","d","e","r">>,  \* shoulder
        <<"e","l","b","o","w">>,  \* elbow
        <<"w","r","i","s","t">>,  \* wrist
        <<"h","a","n","d">>,  \* hand
        <<"s","c","a","p","u","l","a">>,  \* scapula
        <<"c","l","a","v","i","c","l","e">>,  \* clavicle
        <<"h","u","m","e","r","u","s">>,  \* humerus
        <<"r","i","g","h","t"," ","h","u","m","e","r","u","s">>,  \* right humerus
        <<"u","l","n","a"," ","l","e","f","t">>,  \* ulna left
        <<"f","o","r","e","a","r","m">>,  \* forearm
        <<"l","e","f","t"," ","f","o","r","e","a","r","m">>,  \* left forearm
        <<"f","i","n","g","e","r">>,  \* finger
        <<"b","r","a","c","h","i","a","l"," ","p","l","e","x","u","s">>,  \* brachial plexus
        <<"r","i","g","h","t"," ","t","h","u","m","b">>  \* right thumb
      >> ],
    [ name |-> "lower_extremities", terms |-> <<
        <<"l","o","w","e","r">>,  \* lower
        <<"l","e","g">>,  \* leg
        <<"k","n","e","e">>,  \* knee
        <<"k","n","e","e","s">>,  \* knees
        <<"f","o","o","t">>,  \* foot
        <<"t","h","i","g","h">>,  \* thigh
        <<"t","i","b","i","a">>,  \* tibia
        <<"f","e","m","u","r">>,  \* femur
        <<"c","a","l","c","a","n","e","u","s">>,  \* calcaneus
        <<"p","o","p","l","i","t","e","a","l"," ","a","r","t","e","r","y">>,  \* popliteal artery
        <<"k","n","e","e","s"," ","b","i","l","a","t","e","r","a","l">>,  \* knees bilateral
        <<"r","i","g","h","t"," ","m","a","l","l","e","o","l","u","s">>,  \* right malleolus
        <<"f","e","m","o","r","a","l"," ","n","e","r","v","e"," ","l","e","f","t">>,  \* femoral nerve left
        <<"l","o","w","e","r"," ","e","x","t","r","e","m","i","t","i","e","s">>,  \* lower extremities
        <<"i","l","i","o","f","e","m","o","r","a","l"," ","a","r","t","e","r","i","e","s">>,  \* iliofemoral arteries
        <<"a","n","k","l","e">>  \* ankle
      >> ],
    [ name |-> "spine", terms |-> <<
        <<"s","p","i","n","e">>,  \* spine
        <<"v","e","r","t","e","b","r","a","l">>,  \* vertebral
        <<"l","u","m","b","a","r">>,  \* lumbar
        <<"s","a","c","r","a","l">>,  \* sacral
        <<"s","p","i","n","a","l"," ","c","a","n","a","l">>,  \* spinal canal
        <<"s","p","i","n","a","l"," ","c","o","r","d">>,  \* spinal cord
        <<"s","p","i","n","a","l">>,  \* spinal
        <<"t","h","o","r","a","c","i","c"," ","s","p","i","n","e">>  \* thoracic spine
      >> ],
    [ name |-> "skeletal", terms |-> <<
        <<"j","o","i","n","t">>,  \* joint
        <<"b","o","n","e">>,  \* bone
        <<"b","o","n","e","s">>,  \* bones
        <<"s","k","e","l","e","t","a","l">>,  \* skeletal
        <<"s","k","e","l","e","t","o","n">>,  \* skeleton
        <<"e","x","t","r","e","m","i","t","i","e","s">>,  \* extremities
        <<"m","u","s","c","u","l","o","s","k","e","l","e","t","a","l">>,  \* musculoskeletal
        <<"m","u","s","c","u","l","o","s","k","e","l","e","t","a","l"," ","s","y","s","t","e","m">>  \* musculoskeletal system
      >> ],
    [ name |-> "lymphatic", terms |-> <<
        <<"l","y","m","p","h"," ","n","o","d","e","s">>,  \* lymph nodes
        <<"l","y","m","p","h","a","t","i","c"," ","s","y","s","t","e","m">>  \* lymphatic system
      >> ],
    [ name |-> "body", terms |-> <<
        <<"w","h","o","l","e"," ","b","o","d","y">>,  \* whole body
        <<"b","o","d","y">>,  \* body
        <<"f","u","l","l"," ","b","o","d","y">>,  \* full body
        <<"v","a","r","i","o","u","s"," ","o","r","g","a","n","s">>,  \* various organs
        <<"m","u","l","t","i","p","l","e"," ","o","r","g","a","n","s">>,  \* multiple organs
        <<"e","x","t","r","e","m","i","t","i","e","s">>,  \* extremities
        <<"m","u","l","t","i","p","l","e"," ","o","r","g","a","n"," ","s","y","s","t","e","m","s">>,  \* multiple organ systems
        <<"m","u","s","c","u","l","a","r"," ","s","y","s","t","e","m">>,  \* muscular system
        <<"s","k","i","n">>,  \* skin
        <<"l","i","m","b","s">>,  \* limbs
        <<"b","l","o","o","d">>,  \* blood
        <<"p","e","r","i","p","h","e","r","a","l">>,  \* peripheral
        <<"e","n","d","o","c","r","i","n","e"," ","s","y","s","t","e","m">>,  \* endocrine system
        <<"m","u","s","c","l","e","s">>,  \* muscles
        <<"v","a","s","c","u","l","a","r"," ","r","e","g","i","o","n">>,  \* vascular region
        <<"v","a","s","c","u","l","a","r"," ","s","y","s","t","e","m">>,  \* vascular system
        <<"a","r","t","e","r","i","a","l"," ","s","y","s","t","e","m">>  \* arterial system
      >> ]
  >>

\* categories_to_flags: 1 << i for each exam category
categories_to_flags ==
     "CT Scans" :> 2^0
  @@ "MRI" :> 2^1
  @@ "Ultrasound and Doppler Studies" :> 2^2
  @@ "Radiography and X-Ray" :> 2^3
  @@ "Nuclear Medicine" :> 2^4
  @@ "Invasive and Interventional Procedures" :> 2^5
  @@ "Cardiovascular Specific Exams" :> 2^6
  @@ "Health Check-ups and Other Exams" :> 2^7

\* cluster_tokens: 1 << i for each organ cluster
cluster_tokens ==
     "head" :> 2^0
  @@ "neck" :> 2^1
  @@ "thorax" :> 2^2
  @@ "abdomen_pelvis" :> 2^3
  @@ "upper_extremities" :> 2^4
  @@ "lower_extremities" :> 2^5
  @@ "spine" :> 2^6
  @@ "skeletal" :> 2^7
  @@ "lymphatic" :> 2^8
  @@ "body" :> 2^9

RECURSIVE digits_of(_)
\* the decimal digits of a natural number
digits_of(n) ==
  IF n < 10 THEN <<Digits[n + 1]>> ELSE Append(digits_of(n \div 10), Digits[(n % 10) + 1])

\* str(v) of a string or a non-negative int
py_str(v) == IF v.t = "int" THEN digits_of(v.n) ELSE v.s

\* the hyphens removed instead of replaced by spaces
re_sub_hyphen_removed(s) == str_replace(s, "-", <<>>)

\* re.sub(r"-", " ", s)
re_sub_hyphen(s) == str_replace(s, "-", <<" ">>)

\* re.sub(r"[^\w\s]", "", s)
re_sub_punctuation(s) == SelectSeq(s, LAMBDA c : c \in WordChars \cup Whitespace)

\* \b before position i of s (1-based; i = Len(s) + 1 is the end): exactly
\* one of the characters on either side is a word character
word_boundary(s, i) ==
  LET before == i > 1 /\ s[i - 1] \in WordChars
      after == i <= Len(s) /\ s[i] \in WordChars
  IN before # after

\* a search for the term anywhere, without the \b anchors
re_search_substring(term, s) ==
  \E i \in 1..(Len(s) - Len(term) + 1) : s[i] = term[1] /\ HasAt(s, i, term)

\* re.search(r"\b" + re.escape(term) + r"\b", s): the escaped term matches
\* itself literally
re_search_word(term, s) ==
  \E i \in 1..(Len(s) - Len(term) + 1) :
    /\ s[i] = term[1]
    /\ HasAt(s, i, term)
    /\ word_boundary(s, i)
    /\ word_boundary(s, i + Len(term))

\* any(re.search(...) for term in terms)
any_term(terms, s) == \E j \in DOMAIN terms : re_search_word(terms[j], s)

RECURSIVE flag_from(_, _, _, _)
\* the for loop over the categories from index i: binary_flag |= flag for
\* every category with a matching term.  The flags are distinct powers of
\* two and each category is visited once, so |= adds the flag.
flag_from(table, flag_of, s, i) ==
  IF i > Len(table) THEN 0
  ELSE (IF any_term(table[i].terms, s) THEN flag_of[table[i].name] ELSE 0)
       + flag_from(table, flag_of, s, i + 1)

\* the two re.sub calls of both encoders
cleaned_text(v) == re_sub_punctuation(str_lower(re_sub_hyphen(py_str(v))))

\* map_exam_to_binary_flag(exam_name)
map_exam_to_binary_flag(exam_name) ==
  IF isna(exam_name) THEN Returned(None)
  ELSE Returned(PyInt(flag_from(exam_categories, categories_to_flags, cleaned_text(exam_name), 1)))

\* tokenize_and_flag_organs(phrase)
tokenize_and_flag_organs(phrase) ==
  IF isna(phrase) THEN Returned(None)
  ELSE Returned(PyInt(flag_from(organ_clusters, cluster_tokens, cleaned_text(phrase), 1)))

----------------------------------------------------------------------------
(* DataFrames and the batch methods.                                       *)
(*                                                                         *)
(* A DataFrame is [cols, rows]: the set of its column names and the        *)
(* sequence of its records, each a function from cols to Python values.    *)
(* An int stands for any numeric cell.                                     *)

\* column in df.columns
has_column(d, column) == column \in d.cols

\* df[column]: the values of the column, in row order
get_column(d, column) == AsSeq([i \in 1..Len(d.rows) |-> d.rows[i][column]], Len(d.rows))

\* df[column] = values: the column is added, or overwritten when present;
\* no other column and no row is touched
set_column(d, column, values) ==
  [ cols |-> d.cols \cup {column},
    rows |-> AsSeq([i \in 1..Len(d.rows) |->
                      [k \in d.cols \cup {column} |->
                         IF k = column THEN values[i] ELSE d.rows[i][k]]],
                   Len(d.rows)) ]

\* the flags written over the column they are computed from
flags_name_same(column) == column

\* column + '_flags'
flags_name(column) == column \o "_flags"

\* Series.apply(f) given the result f returned or raised on each value:
\* the first exception propagates, else the Series of the results
series_apply(results) ==
  IF \E i \in DOMAIN results : results[i].status = "raised"
    THEN results[CHOOSE i \in DOMAIN results :
                   /\ results[i].status = "raised"
                   /\ \A j \in 1..(i - 1) : results[j].status = "ok"]
    ELSE Returned(AsSeq([i \in DOMAIN results |-> results[i].value], Len(results)))

\* apply_cleaning_to_dataframe(df, column_name): df[column_name] raises
\* KeyError when the column is absent
apply_cleaning_to_dataframe(d, column_name) ==
  IF ~has_column(d, column_name) THEN KeyError
  ELSE LET column == get_column(d, column_name)
       IN series_apply(AsSeq([i \in 1..Len(column) |-> clean_recommendation(column[i])],
                             Len(column)))

\* apply_formatting_to_dataframe(df, column_name): x[column_name] raises
\* KeyError on the first row when the column is absent
apply_formatting_to_dataframe(d, column_name) ==
  IF d.rows # <<>> /\ ~has_column(d, column_name) THEN KeyError
  ELSE series_apply(AsSeq([i \in 1..Len(d.rows) |-> format_referral(d.rows[i][column_name])],
                          Len(d.rows)))

\* check_columns(df, required_columns)
check_columns(d, required_columns) ==
  LET missing_columns == SelectSeq(required_columns, LAMBDA col : ~has_column(d, col))
  IN IF missing_columns # <<>> THEN ValueError ELSE Returned(TRUE)

WithIvContrast == <<"w","i","t","h"," ","i","v"," ","c","o","n","t","r","a","s","t">>  \* 'with iv contrast'
WithoutIvContrast == <<"w","i","t","h","o","u","t"," ","i","v"," ","c","o","n","t","r","a","s","t">>  \* 'without iv contrast'
WithOrWithoutIvContrast == <<"w","i","t","h"," ","o","r"," ","w","i","t","h","o","u","t"," ","i","v"," ","c","o","n","t","r","a","s","t">>  \* 'with or without iv contrast'

\* the map with one entry leading to another spelling variant
contrast_standardization_map_variant ==
     (WithIvContrast \o <<" ">>) :> WithIvContrast
  @@ (WithoutIvContrast \o <<" ">>) :> WithoutIvContrast
  @@ (<<" ">> \o WithIvContrast) :> (WithIvContrast \o <<" ">>)
  @@ (<<" ">> \o WithOrWithoutIvContrast) :> WithOrWithoutIvContrast
  @@ (<<" ">> \o WithoutIvContrast) :> WithoutIvContrast
  @@ (WithOrWithoutIvContrast \o <<" ">>) :> WithOrWithoutIvContrast

\* self.contrast_standardization_map
contrast_standardization_map ==
     (WithIvContrast \o <<" ">>) :> WithIvContrast
  @@ (WithoutIvContrast \o <<" ">>) :> WithoutIvContrast
  @@ (<<" ">> \o WithIvContrast) :> WithIvContrast
  @@ (<<" ">> \o WithOrWithoutIvContrast) :> WithOrWithoutIvContrast
  @@ (<<" ">> \o WithoutIvContrast) :> WithoutIvContrast
  @@ (WithOrWithoutIvContrast \o <<" ">>) :> WithOrWithoutIvContrast

\* the dict literal with the codes of the first two phrases exchanged
contrast_flags_map_exchanged ==
     WithIvContrast :> 0
  @@ WithoutIvContrast :> 1
  @@ WithOrWithoutIvContrast :> 2

\* the dict literal of encode_binary_flags_contrast
contrast_flags_map ==
     WithIvContrast :> 1
  @@ WithoutIvContrast :> 0
  @@ WithOrWithoutIvContrast :> 2

\* Series.map(dict) finds the value among the keys of the dict (all of
\* them strings); any other value maps to the missing value
is_key(mapping, v) == isinstance_str(v) /\ v.s \in DOMAIN mapping

\* standardize_contrast(column): column.map(...).fillna(column)
standardize_contrast(column) ==
  AsSeq([i \in 1..Len(column) |->
           LET mapped == IF is_key(contrast_standardization_map, column[i])
                           THEN PyStr(contrast_standardization_map[column[i].s])
                           ELSE None
           IN IF isna(mapped) THEN column[i] ELSE mapped],
        Len(column))

\* what a method that works on the caller's DataFrame leaves: the frame
\* and what it returned or raised
Outcome(d, r) == [df |-> d, ret |-> r]

\* the value of a method that returns the DataFrame it was given
TheFrame == [t |-> "frame", s |-> <<>>, n |-> 0]

\* encode_binary_flags_contrast(df, column): the right-hand side df[column]
\* is evaluated first, so an absent column raises KeyError with df untouched
encode_binary_flags_contrast(d, column) ==
  IF ~has_column(d, column) THEN Outcome(d, KeyError)
  ELSE LET values == get_column(d, column)
           codes == AsSeq([i \in 1..Len(values) |->
                             IF is_key(contrast_flags_map, values[i])
                               THEN PyInt(contrast_flags_map[values[i].s])
                               ELSE None],
                          Len(values))
       IN Outcome(set_column(d, flags_name(column), codes), Returned(None))

\* process_data(df, exam_column, organ_column, contrast_column): four
\* assignments in program order; an absent column raises KeyError at the
\* statement that reads it, and the assignments made before it stay
process_data(d, exam_column, organ_column, contrast_column) ==
  IF ~has_column(d, exam_column) THEN Outcome(d, KeyError)
  ELSE
    LET exams == get_column(d, exam_column)
        d1 == set_column(d, flags_name(exam_column),
                AsSeq([i \in 1..Len(exams) |-> map_exam_to_binary_flag(exams[i]).value],
                      Len(exams)))
    IN IF ~has_column(d1, organ_column) THEN Outcome(d1, KeyError)
       ELSE
         LET organs == get_column(d1, organ_column)
             d2 == set_column(d1, flags_name(organ_column),
                     AsSeq([i \in 1..Len(organs) |-> tokenize_and_flag_organs(organs[i]).value],
                           Len(organs)))
         IN IF ~has_column(d2, contrast_column) THEN Outcome(d2, KeyError)
            ELSE
              LET d3 == set_column(d2, contrast_column,
                          standardize_contrast(get_column(d2, contrast_column)))
                  d4 == encode_binary_flags_contrast(d3, contrast_column).df
              IN Outcome(d4, Returned(TheFrame))

----------------------------------------------------------------------------
(* Input spaces.                                                           *)

RECURSIVE Concats(_, _)
\* every concatenation of at most n atoms
Concats(atoms, n) ==
  IF n = 0 THEN {<<>>}
  ELSE LET shorter == Concats(atoms, n - 1)
       IN shorter \cup {a \o t : a \in atoms, t \in shorter}

\* a value that is neither a string nor missing
SomeInt == PyInt(7)

A_ExamFooBar == <<"E","x","a","m",":"," ","f","o","o"," ","b","a","r",".">>  \* "Exam: foo bar."
A_RecommendationCt == <<"R","e","c","o","m","m","e","n","d","a","t","i","o","n",":"," ","c","t",".">>  \* "Recommendation: ct."
A_exam == <<"e","x","a","m",":">>  \* "exam:"
A_ct == <<"c","t">>  \* "ct"

A_TwoLines == <<"c","t","\n","h","e","a","d",".">>  \* "ct\nhead."

ExtractAtoms ==
  { A_ExamFooBar, A_RecommendationCt, A_exam, A_ct, A_TwoLines,
    <<".">>, <<"\n">>, <<" ">>, <<"\t">> }

ExtractInputs ==
  {PyStr(s) : s \in Concats(ExtractAtoms, MaxAtoms)} \cup {None, SomeInt}

A_Example == <<"C","T"," ","s","c","a","n"," ","a","b","d","o","m","e","n"," ","w","i","t","h"," ","i","v"," ","c","o","n","t","r","a","s","t">>  \* "CT scan abdomen with iv contrast"

SegmentAtoms ==
  { A_Example,
    <<"M","R","I"," ">>, <<"s","c","a","n"," ">>, <<"s","c","a","n">>, <<"S","c","a","n"," ">>, <<"h","e","a","d"," ">>, <<"w","i","t","h"," ">>, <<"w","i","t","h">>,
    <<",">>, <<" ">>, <<"\n">> }

SegmentInputs ==
  {PyStr(s) : s \in Concats(SegmentAtoms, MaxAtoms)} \cup {None, SomeInt}

A_kidney_stone == <<"k","i","d","n","e","y"," ","s","t","o","n","e">>  \* "kidney stone"
A_kidneystone == <<"k","i","d","n","e","y","s","t","o","n","e">>  \* "kidneystone"
A_Small_bowel == <<"S","m","a","l","l","-","b","o","w","e","l">>  \* "Small-bowel"
EncodeAtoms ==
  { <<"k","i","d","n","e","y">>, <<"s","t","o","n","e">>, <<"S","m","a","l","l">>, <<"b","o","w","e","l">>, <<"C","T">>, <<" ">>, <<"-">>, <<",">>, <<"_">> }

A_x_ray == <<"x","-","r","a","y">>  \* "x-ray"
A_ct_xray == <<"c","t",","," ","x","r","a","y">>  \* "ct, xray"
A_check_up == <<"c","h","e","c","k","-","u","p">>  \* "check-up"

\* the pieces of the trigger terms that are written with punctuation
PunctuatedAtoms ==
  { <<"x">>, <<"r","a","y">>, <<"x","r","a","y">>, <<"c","t">>, <<"-">>, <<",", " ">>, A_check_up }

EncodeInputs ==
  {PyStr(s) : s \in Concats(EncodeAtoms, MaxAtoms) \cup Concats(PunctuatedAtoms, MaxAtoms)}
    \cup {None, SomeInt}

RECURSIVE SeqsUpTo(_, _)
\* the non-empty sequences of at most n elements of S
SeqsUpTo(S, n) ==
  IF n = 0 THEN {}
  ELSE LET shorter == SeqsUpTo(S, n - 1)
       IN {<<x>> : x \in S} \cup {Append(t, x) : t \in shorter, x \in S}

\* the DataFrame with the given columns whose records are the given ones,
\* cut down to those columns
Frame(columns, records) ==
  [ cols |-> columns,
    rows |-> AsSeq([i \in 1..Len(records) |-> [k \in columns |-> records[i][k]]],
                   Len(records)) ]

\* contrast cells: the canonical phrases, spelling variants, an unknown
\* phrase, a number and the missing value
ContrastValues ==
  { PyStr(WithIvContrast), PyStr(WithoutIvContrast), PyStr(WithOrWithoutIvContrast),
    PyStr(<<" ">> \o WithIvContrast), PyStr(WithoutIvContrast \o <<" ">>),
    PyStr(<<"W","i","t","h"," ","i","v"," ","c","o","n","t","r","a","s","t">>), PyStr(A_ct), None, SomeInt }

ContrastFrames ==
  { Frame({"contrast"}, AsSeq([i \in 1..Len(column) |-> [k \in {"contrast"} |-> column[i]]],
                              Len(column))) :
      column \in SeqsUpTo(ContrastValues, MaxRows) }

\* the column names a caller may hold or declare
ColumnNames == {"exam", "organ", "contrast", "contrast_flags"}

\* the records the DataFrames of the pipeline are made of
Records ==
  { [exam |-> PyStr(<<"C","T">>), organ |-> PyStr(A_kidney_stone),
     contrast |-> PyStr(<<" ">> \o WithIvContrast), contrast_flags |-> PyStr(<<"C","T"," ","o","f"," ","h","e","a","d">>)],
    [exam |-> None, organ |-> None, contrast |-> None, contrast_flags |-> None],
    [exam |-> SomeInt, organ |-> PyStr(A_Small_bowel),
     contrast |-> PyStr(WithoutIvContrast), contrast_flags |-> PyInt(5)] }

PipelineFrames ==
  { Frame(columns, records) :
      columns \in (SUBSET ColumnNames) \ {{}}, records \in SeqsUpTo(Records, MaxRows) }

----------------------------------------------------------------------------
(* State.                                                                  *)

EmptyFrame == [cols |-> {}, rows |-> <<>>]
NoCall == [op |-> "none", arg |-> None, column |-> ""]

\* a specification of one pure method holds no DataFrame: the caller has
\* an argument value in hand and has not called yet
InitPure(inputs) ==
  /\ df = EmptyFrame
  /\ cols3 = <<"", "", "">>
  /\ \E v \in inputs : call = [op |-> "none", arg |-> v, column |-> ""]
  /\ ret = Returned(None)
  /\ prev = EmptyFrame
  /\ prevcall = NoCall

\* the caller applies clean_recommendation to its value
CleanRecommendation ==
  /\ call.op = "none"
  /\ call' = [call EXCEPT !.op = "clean_recommendation"]
  /\ ret' = clean_recommendation(call.arg)
  /\ UNCHANGED <<df, cols3, prev, prevcall>>

InitExtract == InitPure(ExtractInputs)

NextExtract == CleanRecommendation

SpecExtract == InitExtract /\ [][NextExtract]_vars

----------------------------------------------------------------------------
(* Claims about clean_recommendation (extract).                            *)

Max(S) == CHOOSE x \in S : \A y \in S : y <= x
Min(S) == CHOOSE x \in S : \A y \in S : x <= y

L_recommendation_colon == <<"r","e","c","o","m","m","e","n","d","a","t","i","o","n",":">>
L_exam_colon == <<"e","x","a","m",":">>

\* s holds a "Recommendation:" or "Exam:" label, in any case, starting
\* before position p
HasLabelBefore(s, p) ==
  \E i \in 1..(p - 1) :
    \/ HasAtIgnoreCase(s, i, L_recommendation_colon)
    \/ HasAtIgnoreCase(s, i, L_exam_colon)

HasLabel(s) == HasLabelBefore(s, Len(s) + 1)

NewlinesToSpaces(s) ==
  AsSeq([i \in 1..Len(s) |-> IF s[i] = "\n" THEN " " ELSE s[i]], Len(s))

Trimmed(s) ==
  LET solid == {i \in 1..Len(s) : s[i] \notin Whitespace}
  IN IF solid = {} THEN <<>> ELSE SubSeq(s, Min(solid), Max(solid))

WithoutOneTrailingPeriod(s) ==
  IF s # <<>> /\ s[Len(s)] = "." THEN SubSeq(s, 1, Len(s) - 1) ELSE s

WithoutTrailingPeriods(s) ==
  SubSeq(s, 1, Max({k \in 0..Len(s) : k = 0 \/ s[k] # "."}))

CleanedUnlabelled == call.op = "clean_recommendation" /\ isinstance_str(call.arg) /\ ~HasLabel(call.arg.s)

\* C5 as stated: for a text without a label, extract returns the text with
\* newlines replaced by spaces, trimmed, and at most one trailing period removed.
C5_SinglePeriodRemoved ==
  CleanedUnlabelled =>
    ret = Returned(PyStr(WithoutOneTrailingPeriod(Trimmed(NewlinesToSpaces(call.arg.s)))))

\* C5 amended: for a text without a label, extract returns the text with
\* newlines replaced by spaces, trimmed, and then every trailing period removed.
C5_AllTrailingPeriodsRemoved ==
  CleanedUnlabelled =>
    ret = Returned(PyStr(WithoutTrailingPeriods(Trimmed(NewlinesToSpaces(call.arg.s)))))

\* an unlabelled text with a newline that ends, once trimmed, in two periods
C5_Witness ==
  /\ CleanedUnlabelled
  /\ \E i \in 1..Len(call.arg.s) : call.arg.s[i] = "\n"
  /\ LET x == Trimmed(NewlinesToSpaces(call.arg.s))
     IN Len(x) >= 3 /\ x[Len(x)] = "." /\ x[Len(x) - 1] = "."
  /\ ret.status = "ok"

A_foo_bar == <<"f","o","o"," ","b","a","r">>  \* "foo bar"

\* the positions at which "Exam: foo bar." occurs in s
ExamFooBarAt(s) == {p \in 1..Len(s) : HasAt(s, p, A_ExamFooBar)}

\* C6 as stated: every text that contains "Exam: foo bar." is extracted to
\* "foo bar", whatever precedes it.
C6_ExamFooBarAnywhere ==
  (/\ call.op = "clean_recommendation"
   /\ isinstance_str(call.arg)
   /\ ExamFooBarAt(call.arg.s) # {})
  => ret = Returned(PyStr(A_foo_bar))

\* C6 amended: a text that contains "Exam: foo bar." with no "Recommendation:"
\* or "Exam:" label (in any case) to its left is extracted to "foo bar".
C6_ExamFooBarLeftmost ==
  (/\ call.op = "clean_recommendation"
   /\ isinstance_str(call.arg)
   /\ \E p \in ExamFooBarAt(call.arg.s) : ~HasLabelBefore(call.arg.s, p))
  => ret = Returned(PyStr(A_foo_bar))

\* "Exam: foo bar." with unlabelled text before it and a label after it
C6_Witness ==
  /\ call.op = "clean_recommendation"
  /\ isinstance_str(call.arg)
  /\ \E p \in ExamFooBarAt(call.arg.s) :
       /\ p > 1
       /\ ~HasLabelBefore(call.arg.s, p)
       /\ \E i \in (p + 1)..Len(call.arg.s) : LabelEnd(call.arg.s, i) > 0
  /\ ret = Returned(PyStr(A_foo_bar))

----------------------------------------------------------------------------
(* The referral segmenter on one value.                                    *)

\* the caller applies format_referral to its value
FormatReferral ==
  /\ call.op = "none"
  /\ call' = [call EXCEPT !.op = "format_referral"]
  /\ ret' = format_referral(call.arg)
  /\ UNCHANGED <<df, cols3, prev, prevcall>>

InitSegment == InitPure(SegmentInputs)

NextSegment == FormatReferral

SpecSegment == InitSegment /\ [][NextSegment]_vars

----------------------------------------------------------------------------
(* Claims about format_referral (segment).                                 *)

\* the pieces of s between single spaces: piece j lies between the
\* (j-1)-th and the j-th space
Pieces(s) ==
  LET spaces == {i \in 1..Len(s) : s[i] = " "}
      cuts == spaces \cup {0, Len(s) + 1}
      Cut(j) == CHOOSE c \in cuts : Cardinality({d \in cuts : d < c}) = j
  IN [j \in 1..(Cardinality(spaces) + 1) |-> SubSeq(s, Cut(j - 1) + 1, Cut(j) - 1)]

\* the tokens of the claim: each piece trimmed, its commas removed
Tokens(s) ==
  LET pieces == Pieces(s)
  IN [j \in DOMAIN pieces |-> SelectSeq(Trimmed(pieces[j]), LAMBDA c : c # ",")]

RECURSIVE JoinedBySpaces(_, _, _)
\* tokens[from..to] joined by single spaces
JoinedBySpaces(tokens, from, to) ==
  IF from > to THEN <<>>
  ELSE IF from = to THEN tokens[to]
  ELSE JoinedBySpaces(tokens, from, to - 1) \o <<" ">> \o tokens[to]

\* the segmentation C3 describes
Segmentation(s) ==
  LET tokens == Tokens(s)
      n == Len(tokens)
      ct == {i \in 1..n : tokens[i] \in ct_types}
      k == IF ct = {} THEN 1 ELSE Min(ct)
      kw == {i \in (k + 1)..n : tokens[i] \in keywords}
  IN << PyStr(JoinedBySpaces(tokens, 1, k)),
        PyStr(JoinedBySpaces(tokens, k + 1, IF kw = {} THEN n ELSE Min(kw) - 1)),
        IF kw = {} THEN None ELSE PyStr(JoinedBySpaces(tokens, Min(kw), n)) >>

Segmented == call.op = "format_referral" /\ isinstance_str(call.arg)

\* C3: for a string phrase, segment returns exam = tokens[0..k] with k the
\* first CT-type token (tokens[0] alone when there is none), body_part = the
\* tokens after k up to the first contrast keyword m after k, contrast = the
\* tokens from m on, or null when there is no contrast keyword after k; and
\* "CT scan abdomen with iv contrast" gives ("CT scan", "abdomen", "with iv contrast").
C3_SegmentByFirstKeywords ==
  /\ Segmented => ret = Returned(Segmentation(call.arg.s))
  /\ (Segmented /\ call.arg.s = A_Example) =>
       ret.value = <<PyStr(<<"C","T"," ","s","c","a","n">>), PyStr(<<"a","b","d","o","m","e","n">>), PyStr(<<"w","i","t","h"," ","i","v"," ","c","o","n","t","r","a","s","t">>)>>

\* a phrase with a CT-type token after the first token, a body part and a
\* contrast keyword after it
C3_Witness ==
  /\ Segmented
  /\ LET tokens == Tokens(call.arg.s)
     IN \E k \in 2..Len(tokens) : \E m \in (k + 2)..Len(tokens) :
          /\ tokens[k] \in ct_types
          /\ tokens[m] \in keywords
          /\ tokens[k + 1] # <<>>
  /\ ret.value[3] # None

\* C8: segment never raises; a non-string input gives {null, null, null};
\* a string input, even empty or made of spaces and commas only, gives a
\* string exam and a string body_part, never the all-null result.
C8_AllNullOnlyForNonStrings ==
  call.op = "format_referral" =>
    /\ ret.status = "ok"
    /\ ~isinstance_str(call.arg) => ret.value = AllNone
    /\ isinstance_str(call.arg) =>
         isinstance_str(ret.value[1]) /\ isinstance_str(ret.value[2])

\* the empty string, or a phrase of spaces and commas only, was segmented
\* into an empty exam and an empty body part
C8_Witness ==
  /\ Segmented
  /\ \A i \in 1..Len(call.arg.s) : call.arg.s[i] \in {" ", ","}
  /\ ret.value[1] = PyStr(<<>>)
  /\ ret.value[2] = PyStr(<<>>)

----------------------------------------------------------------------------
(* The taxonomy encoders on one value.                                     *)

\* the caller applies map_exam_to_binary_flag to its value
MapExamToBinaryFlag ==
  /\ call.op = "none"
  /\ call' = [call EXCEPT !.op = "map_exam_to_binary_flag"]
  /\ ret' = map_exam_to_binary_flag(call.arg)
  /\ UNCHANGED <<df, cols3, prev, prevcall>>

\* the caller applies tokenize_and_flag_organs to its value
TokenizeAndFlagOrgans ==
  /\ call.op = "none"
  /\ call' = [call EXCEPT !.op = "tokenize_and_flag_organs"]
  /\ ret' = tokenize_and_flag_organs(call.arg)
  /\ UNCHANGED <<df, cols3, prev, prevcall>>

InitEncode == InitPure(EncodeInputs)

NextEncode == MapExamToBinaryFlag \/ TokenizeAndFlagOrgans

SpecEncode == InitEncode /\ [][NextEncode]_vars

----------------------------------------------------------------------------
(* Claims about the encoders (encode).                                     *)

\* the segment with hyphens replaced by spaces, other punctuation removed,
\* and lower-cased, one character at a time
Normalized(s) ==
  LET kept == SelectSeq(s, LAMBDA c : c = "-" \/ c \in WordChars \cup Whitespace)
  IN IF kept = <<>> THEN <<>>
     ELSE [i \in 1..Len(kept) |-> IF kept[i] = "-" THEN " " ELSE lower_char(kept[i])]

\* term occurs in text as a whole word: not preceded and not followed by a
\* word character
OccursAsWholeWord(term, text) ==
  \E p \in 1..Len(text) :
    /\ p + Len(term) - 1 <= Len(text)
    /\ \A j \in 1..Len(term) : text[p + j - 1] = term[j]
    /\ p = 1 \/ text[p - 1] \notin WordChars
    /\ p + Len(term) > Len(text) \/ text[p + Len(term)] \notin WordChars

\* bit i (counted from 0) of n
BitSet(n, i) == (n \div 2^i) % 2 = 1

Encoded ==
  /\ call.op \in {"map_exam_to_binary_flag", "tokenize_and_flag_organs"}
  /\ ~isna(call.arg)

EncodedTable ==
  IF call.op = "map_exam_to_binary_flag" THEN exam_categories ELSE organ_clusters


\* C4: for a non-null segment and either table, bit i of the bitmask is set
\* exactly when a trigger term of category i occurs as a whole word in the
\* segment after hyphens become spaces, other punctuation is removed and the
\* text is lower-cased; "kidney stone" sets the abdomen_pelvis bit (bit 3)
\* and "kidneystone" sets no bit.
C4_BitIffWholeWordTerm ==
  /\ Encoded =>
       /\ ret.status = "ok"
       /\ ret.value.t = "int"
       /\ ret.value.n < 2^Len(EncodedTable)
       /\ \A i \in 1..Len(EncodedTable) :
            BitSet(ret.value.n, i - 1) <=>
              \E j \in DOMAIN EncodedTable[i].terms :
                OccursAsWholeWord(EncodedTable[i].terms[j], Normalized(py_str(call.arg)))
  /\ (call.op = "tokenize_and_flag_organs" /\ call.arg = PyStr(A_kidney_stone)) =>
       BitSet(ret.value.n, 3)
  /\ (call.op = "tokenize_and_flag_organs" /\ call.arg = PyStr(A_kidneystone)) =>
       ret.value.n = 0

\* "Small-bowel" was encoded against the organ table: the two-word term
\* "small bowel" matches only after the hyphen and the capital are normalised
C4_Witness ==
  /\ call.op = "tokenize_and_flag_organs"
  /\ call.arg = PyStr(A_Small_bowel)
  /\ ret.value = PyInt(2^3)

\* the characters C11 names in trigger terms
TermPunctuation == {"-", ",", "/"}

\* the term is written with a hyphen, a comma or a slash
Punctuated(term) == \E i \in 1..Len(term) : term[i] \in TermPunctuation

\* the table with the punctuated terms deleted
WithoutPunctuatedTerms(table) ==
  [i \in DOMAIN table |->
     [name |-> table[i].name,
      terms |-> SelectSeq(table[i].terms, LAMBDA term : ~Punctuated(term))]]

\* the bit values of the table the call used
EncodedFlags ==
  IF call.op = "map_exam_to_binary_flag" THEN categories_to_flags ELSE cluster_tokens

\* C11: in both encoders the text that is matched holds only letters,
\* digits, underscores and whitespace, so a trigger term written with a
\* hyphen, a comma or a slash matches no input, and the bitmask is the one
\* computed with those terms deleted from the table; the exam input "x-ray"
\* is cleaned to "x ray" and does not set the Radiography and X-Ray bit
\* (bit 3).
C11_PunctuatedTermsAreDead ==
  /\ Encoded =>
       LET text == cleaned_text(call.arg)
       IN /\ \A i \in 1..Len(text) : text[i] \in WordChars \cup Whitespace
          /\ \A i \in 1..Len(EncodedTable) :
               \A j \in DOMAIN EncodedTable[i].terms :
                 Punctuated(EncodedTable[i].terms[j]) =>
                   ~re_search_word(EncodedTable[i].terms[j], text)
          /\ ret.value =
               PyInt(flag_from(WithoutPunctuatedTerms(EncodedTable), EncodedFlags, text, 1))
  /\ (call.op = "map_exam_to_binary_flag" /\ call.arg = PyStr(A_x_ray)) =>
       /\ cleaned_text(call.arg) = <<"x"," ","r","a","y">>
       /\ ~BitSet(ret.value.n, 3)

\* "x-ray", itself a trigger term of the Radiography and X-Ray category,
\* was encoded as an exam and no bit is set
C11_Witness ==
  /\ call.op = "map_exam_to_binary_flag"
  /\ call.arg = PyStr(A_x_ray)
  /\ \E j \in DOMAIN exam_categories[4].terms : exam_categories[4].terms[j] = A_x_ray
  /\ ret.value = PyInt(0)

----------------------------------------------------------------------------
(* The methods that work on the caller's DataFrame.  The caller holds a    *)
(* DataFrame and three column names, and calls one method on the fresh     *)
(* frame; process_data may then be run again on its own output.            *)

InitFrame(frames, names) ==
  /\ df \in frames
  /\ cols3 \in names
  /\ call = NoCall
  /\ ret = Returned(None)
  /\ prev = df
  /\ prevcall = NoCall

Called(op, column) == [op |-> op, arg |-> None, column |-> column]

\* processor.process_data(df, exam_column, organ_column, contrast_column)
ProcessData ==
  /\ call.op \in {"none", "process_data"}
  /\ LET out == process_data(df, cols3[1], cols3[2], cols3[3])
     IN df' = out.df /\ ret' = out.ret
  /\ call' = Called("process_data", "")
  /\ prev' = df
  /\ prevcall' = call
  /\ UNCHANGED cols3

\* processor.encode_binary_flags_contrast(df, contrast_column)
EncodeBinaryFlagsContrast ==
  /\ call.op = "none"
  /\ LET out == encode_binary_flags_contrast(df, cols3[3])
     IN df' = out.df /\ ret' = out.ret
  /\ call' = Called("encode_binary_flags_contrast", cols3[3])
  /\ prev' = df
  /\ prevcall' = call
  /\ UNCHANGED cols3

\* processor.standardize_contrast(df[contrast_column]), for a column the
\* caller can read
StandardizeContrast ==
  /\ call.op = "none"
  /\ has_column(df, cols3[3])
  /\ ret' = Returned(standardize_contrast(get_column(df, cols3[3])))
  /\ call' = Called("standardize_contrast", cols3[3])
  /\ prev' = df
  /\ prevcall' = call
  /\ UNCHANGED <<df, cols3>>

\* apply_cleaning_to_dataframe(df, column) on one of the caller's columns
ApplyCleaningToDataframe ==
  /\ call.op = "none"
  /\ \E column \in Range(cols3) :
       /\ ret' = apply_cleaning_to_dataframe(df, column)
       /\ call' = Called("apply_cleaning_to_dataframe", column)
  /\ prev' = df
  /\ prevcall' = call
  /\ UNCHANGED <<df, cols3>>

\* apply_formatting_to_dataframe(df, column) on one of the caller's columns
ApplyFormattingToDataframe ==
  /\ call.op = "none"
  /\ \E column \in Range(cols3) :
       /\ ret' = apply_formatting_to_dataframe(df, column)
       /\ call' = Called("apply_formatting_to_dataframe", column)
  /\ prev' = df
  /\ prevcall' = call
  /\ UNCHANGED <<df, cols3>>

\* cleaner.check_columns(df, [exam_column, organ_column, contrast_column])
CheckColumns ==
  /\ call.op = "none"
  /\ ret' = check_columns(df, cols3)
  /\ call' = Called("check_columns", "")
  /\ prev' = df
  /\ prevcall' = call
  /\ UNCHANGED <<df, cols3>>

InitContrast == InitFrame(ContrastFrames, {<<"contrast", "contrast", "contrast">>})

NextContrast == StandardizeContrast \/ EncodeBinaryFlagsContrast

SpecContrast == InitContrast /\ [][NextContrast]_vars

InitProcess == InitFrame(PipelineFrames, ColumnNames \X ColumnNames \X ColumnNames)

NextProcess ==
  \/ ProcessData
  \/ EncodeBinaryFlagsContrast
  \/ StandardizeContrast
  \/ ApplyCleaningToDataframe
  \/ ApplyFormattingToDataframe
  \/ CheckColumns

SpecProcess == InitProcess /\ [][NextProcess]_vars

----------------------------------------------------------------------------
(* Claims about the contrast codes (encode_contrast).                      *)

\* the field that holds the flags of a field
FlagsField(field) == field \o "_flags"

EncodedContrast == call.op = "encode_binary_flags_contrast" /\ ret.status = "ok"

\* the code column written for the contrast column is, row by row, the
\* given code of each of the three canonical phrases and null otherwise
ContrastCodesAre(with, without, either) ==
  \A i \in 1..Len(df.rows) :
    LET v == prev.rows[i][call.column]
        code == df.rows[i][FlagsField(call.column)]
    IN /\ v = PyStr(WithIvContrast) => code = PyInt(with)
       /\ v = PyStr(WithoutIvContrast) => code = PyInt(without)
       /\ v = PyStr(WithOrWithoutIvContrast) => code = PyInt(either)
       /\ v \notin {PyStr(WithIvContrast), PyStr(WithoutIvContrast),
                    PyStr(WithOrWithoutIvContrast)} => code = None
       /\ code \in {PyInt(0), PyInt(1), PyInt(2), None}

\* C2 as stated: "with iv contrast" gives 0, "without iv contrast" gives 1,
\* "with or without iv contrast" gives 2, anything else gives null.
C2_CodesAsStated == EncodedContrast => ContrastCodesAre(0, 1, 2)

\* C2 amended: "with iv contrast" gives 1, "without iv contrast" gives 0,
\* "with or without iv contrast" gives 2, anything else (null, a number, an
\* unrecognised or non-canonical phrase) gives null.
C2_CodesOfTheCode == EncodedContrast => ContrastCodesAre(1, 0, 2)

\* a column holding "with iv contrast" and a non-canonical string was encoded
C2_Witness ==
  /\ EncodedContrast
  /\ \E i, j \in 1..Len(df.rows) :
       /\ prev.rows[i][call.column] = PyStr(WithIvContrast)
       /\ df.rows[i][FlagsField(call.column)] = PyInt(1)
       /\ isinstance_str(prev.rows[j][call.column])
       /\ df.rows[j][FlagsField(call.column)] = None

----------------------------------------------------------------------------
(* Claims about process_data (process) and the batch stages.               *)

ExamField == cols3[1]
OrganField == cols3[2]
ContrastField == cols3[3]

\* the fields process_data writes
WrittenFields ==
  {FlagsField(ExamField), FlagsField(OrganField), ContrastField,
   FlagsField(ContrastField)}

\* the three declared fields are distinct and none of them is the _flags
\* field of a declared field
PlainNames ==
  /\ Cardinality(Range(cols3)) = 3
  /\ Range(cols3) \cap {FlagsField(c) : c \in Range(cols3)} = {}

\* C1, for three plain declared names: when one of the declared fields is
\* absent, process fails with an error and leaves the collection exactly as it
\* was: no _flags field added, no contrast value rewritten.
C1_FailsBeforeMutating ==
  (/\ call.op = "process_data"
   /\ PlainNames
   /\ ~(Range(cols3) \subseteq prev.cols))
  => (ret.status = "raised" /\ df = prev)

\* a cleaning or segmenting stage was run on a field the frame has
StageHeld ==
  /\ call.op \in {"apply_cleaning_to_dataframe", "apply_formatting_to_dataframe"}
  /\ has_column(prev, call.column)

\* C7: with the declared fields present no batch stage raises on the value
\* of a record: cleaning and segmenting give a record whose text is missing
\* or not a string null results and still process the other records, and
\* process_data returns.
C7_NoStageHaltsOnAValue ==
  /\ StageHeld =>
       /\ ret.status = "ok"
       /\ \A i \in 1..Len(prev.rows) :
            LET v == prev.rows[i][call.column]
            IN IF isinstance_str(v)
                 THEN ret.value[i] = (IF call.op = "apply_cleaning_to_dataframe"
                                        THEN clean_recommendation(v).value
                                        ELSE format_referral(v).value)
                 ELSE ret.value[i] = (IF call.op = "apply_cleaning_to_dataframe"
                                        THEN None ELSE AllNone)
  /\ (call.op = "process_data" /\ Range(cols3) \subseteq prev.cols) => ret.status = "ok"

Processed ==
  /\ call.op = "process_data"
  /\ Range(cols3) \subseteq prev.cols

\* no field is dropped, the records are as many as before, and every field
\* that existed before and is not in `written` has its value in every record
FrameKept(written) ==
  /\ prev.cols \subseteq df.cols
  /\ df.cols \ prev.cols \subseteq WrittenFields
  /\ Len(df.rows) = Len(prev.rows)
  /\ \A i \in 1..Len(prev.rows) : \A k \in prev.cols \ written :
       df.rows[i][k] = prev.rows[i][k]

\* the standardized text of a contrast cell: a canonical phrase with one
\* stray leading or trailing space loses the space, anything else is kept
StandardText(v) ==
  IF isinstance_str(v)
     /\ \E c \in {WithIvContrast, WithoutIvContrast, WithOrWithoutIvContrast} :
          v.s \in {c \o <<" ">>, <<" ">> \o c}
    THEN PyStr(Trimmed(v.s))
    ELSE v

\* C9 as stated, for three plain declared names: process keeps every field,
\* the number and order of the records and the value of every pre-existing
\* field except <contrast_field>; it writes only the four fields.
C9_OnlyContrastChanges ==
  (Processed /\ PlainNames) =>
    /\ ret.status = "ok"
    /\ FrameKept({ContrastField})

\* C9 amended: process keeps every field, the number and order of the
\* records and the value of every pre-existing field except the fields it
\* writes: <contrast_field> and any pre-existing field named
\* <exam_field>_flags, <organ_field>_flags or <contrast_field>_flags; for
\* plain declared names <contrast_field> holds the standardized text of
\* what it held.
C9_OnlyWrittenFieldsChange ==
  Processed =>
    /\ ret.status = "ok"
    /\ FrameKept(WrittenFields)
    /\ WrittenFields \subseteq df.cols
    /\ PlainNames =>
         \A i \in 1..Len(prev.rows) :
           df.rows[i][ContrastField] = StandardText(prev.rows[i][ContrastField])

\* process ran on a frame of two records that has a field besides the
\* declared ones and a stale <contrast_field>_flags field, and rewrote a
\* contrast value
C9_Witness ==
  /\ Processed
  /\ PlainNames
  /\ Len(prev.rows) = 2
  /\ prev.cols \ Range(cols3) # {}
  /\ FlagsField(ContrastField) \in prev.cols
  /\ \E i \in 1..Len(prev.rows) :
       /\ df.rows[i][ContrastField] # prev.rows[i][ContrastField]
       /\ df.rows[i][FlagsField(ContrastField)] # prev.rows[i][FlagsField(ContrastField)]

\* process_data ran successfully on the output of a successful process_data
Reprocessed ==
  /\ call.op = "process_data"
  /\ prevcall.op = "process_data"
  /\ ret.status = "ok"

SameWrittenFields ==
  \A i \in 1..Len(df.rows) : \A k \in WrittenFields :
    df.rows[i][k] = prev.rows[i][k]

\* C10 as stated: re-running process with the same field names on its own
\* output leaves <exam_field>_flags, <organ_field>_flags, <contrast_field>
\* and <contrast_field>_flags of every record as they were.
C10_RerunChangesNothing == Reprocessed => SameWrittenFields

\* C10 amended: the same, provided the exam field is not itself
\* <organ_field>_flags or <contrast_field>_flags and the organ field is not
\* itself <contrast_field>_flags (fields process overwrites after reading
\* them); and standardize applied to a standardized column returns it unchanged.
C10_RerunChangesNothingUnlessInputOverwritten ==
  /\ (/\ Reprocessed
      /\ ExamField \notin {FlagsField(OrganField), FlagsField(ContrastField)}
      /\ OrganField # FlagsField(ContrastField))
     => SameWrittenFields
  /\ (call.op = "standardize_contrast" /\ ret.status = "ok")
     => standardize_contrast(ret.value) = ret.value

\* process was re-run on its own output for plain names: the output holds
\* a standardized contrast phrase with its code and non-zero exam flags
C10_Witness ==
  /\ Reprocessed
  /\ PlainNames
  /\ \E i \in 1..Len(df.rows) :
       /\ prev.rows[i][ContrastField] = PyStr(WithIvContrast)
       /\ df.rows[i][FlagsField(ContrastField)] = PyInt(1)
       /\ df.rows[i][FlagsField(ExamField)] = PyInt(1)

============================================================================
